---- MODULE Spec2Model ----
(***************************************************************************)
(* A model of scryfall_api.py: the ScryfallAPI fetcher (constructor and    *)
(* get_dataset) and the ScryfallDataWrangler.wrangle pipeline.             *)
(*                                                                         *)
(* A pandas DataFrame is [cols, rows]: the set of column names and the     *)
(* sequence of rows in index order, each row a function from the column    *)
(* names to cells.  A cell is [na, t, v]: na is pandas' isna(), t the      *)
(* Python type of the value, v the value.  Strings that the code slices    *)
(* or searches are sequences: type_line is its sequence of words (the      *)
(* substring tests of the code are tests for a word), set_name and         *)
(* mana_cost are sequences of characters.  cmc is kept in half units of    *)
(* mana (Scryfall's cmc is a float; 0.5 occurs), so cmc 3.0 is 6.          *)
(***************************************************************************)
EXTENDS Naturals, Sequences, FiniteSets, TLC

VARIABLES
    file,               \* the table pd.read_json gives for the cached file
    clean,              \* wrangle's clean argument
    create_new_cols,    \* wrangle's create_new_cols argument
    pc,                 \* the statement of wrangle that runs next
    df,                 \* wrangle's local DataFrame
    cols_to_drop,       \* self.__cols_to_drop
    cleaned_drop_cols,  \* wrangle's local list cleaned_drop_cols
    result,             \* what the wrangle call gave its caller
    removed,            \* removal conditions executed so far in this call
    requeried,          \* removal conditions re-queried by an assert
    wrangles,           \* wrangle calls made on this wrangler object
    fresh,              \* what self.__cols_to_drop would hold in this call
                        \* had the wrangler been built just before it
    listing,            \* what the bulk-data listing endpoint answers
    disk,               \* the names of the files in the working directory
    api,                \* the ScryfallAPI object: unbuilt, ready or raised
    dataset_file,       \* self.dataset_file
    response_status,    \* what the last get_dataset call gave its caller
    calls,              \* get_dataset calls made
    downloads,          \* requests issued for the bulk file
    fault               \* the error the environment raised in the last call

wvars == <<file, clean, create_new_cols, pc, df, cols_to_drop,
           cleaned_drop_cols, result, removed, requeried, wrangles, fresh>>
fvars == <<listing, disk, api, dataset_file, response_status, calls,
           downloads, fault>>
vars == <<wvars, fvars>>

(***************************************************************************)
(* Bounds of the model.                                                    *)
(***************************************************************************)
MaxRows == 2
MaxCalls == 2
MaxSymbols == 2
MaxCmc == 4
MaxWrangles == 2

(***************************************************************************)
(* Cells.                                                                  *)
(***************************************************************************)
NaN == [na |-> TRUE, t |-> "float", v |-> 0]
Bool(b) == [na |-> FALSE, t |-> "bool", v |-> b]
Str(s) == [na |-> FALSE, t |-> "str", v |-> s]
Num(n) == [na |-> FALSE, t |-> "float", v |-> n]
Int(n) == [na |-> FALSE, t |-> "int", v |-> n]
List(s) == [na |-> FALSE, t |-> "list", v |-> s]
Dict(d) == [na |-> FALSE, t |-> "dict", v |-> d]

\* pandas' elementwise ==: a missing value equals nothing
Eq(cell, other) == ~cell.na /\ cell = other
\* Python's "word in string"; raises TypeError on NaN, which callers test first
Contains(s, w) == \E i \in DOMAIN s : s[i] = w
\* Python's s[0:2]
Slice02(s) == SubSeq(s, 1, IF Len(s) < 2 THEN Len(s) ELSE 2)

(***************************************************************************)
(* DataFrames.                                                             *)
(***************************************************************************)
NoDf == [cols |-> {}, rows |-> <<>>]
Has(d, c) == c \in d.cols
Column(d, c) == [i \in DOMAIN d.rows |-> d.rows[i][c]]
\* df.drop(index=df[mask].index, inplace=True)
DropRows(d, mask) ==
    LET keep == SelectSeq([i \in DOMAIN d.rows |-> i], LAMBDA i : ~mask[i])
    IN  [d EXCEPT !.rows = [j \in DOMAIN keep |-> d.rows[keep[j]]]]
\* mask.any()
AnyTrue(mask) == \E i \in DOMAIN mask : mask[i]
\* df.drop(columns=cs)
DropCols(d, cs) ==
    [cols |-> d.cols \ cs,
     rows |-> [i \in DOMAIN d.rows |-> [c \in d.cols \ cs |-> d.rows[i][c]]]]
\* df[c] = values, one value for each row
SetCol(d, c, values) ==
    [cols |-> d.cols \cup {c},
     rows |-> [i \in DOMAIN d.rows |->
                 [k \in d.cols \cup {c} |->
                     IF k = c THEN values[i] ELSE d.rows[i][k]]]]
\* the non-missing values of a column: df[c].dropna()
NonNull(d, c) == SelectSeq(Column(d, c), LAMBDA x : ~x.na)
Distinct(s) == {s[i] : i \in DOMAIN s}
NullCount(d, c) == Len(SelectSeq(Column(d, c), LAMBDA x : x.na))

(***************************************************************************)
(* What one statement of wrangle gives: the table, self.__cols_to_drop,    *)
(* the exception it raised ("" for none), and the removal conditions it    *)
(* executed and re-queried.                                                *)
(***************************************************************************)
Out(d, drop, err, rem, rq) ==
    [df |-> d, drop |-> drop, err |-> err, removed |-> rem, requeried |-> rq]
Ok(d, drop) == Out(d, drop, "", {}, {})
Raise(e, d, drop) == Out(d, drop, e, {}, {})

(***************************************************************************)
(* The removal conditions of the filtering stage.                          *)
(***************************************************************************)
FlagCols == {"reprint", "digital", "reserved", "oversized", "promo",
             "variation", "full_art"}
Conditions == FlagCols \cup
    {"basic", "token_type", "token_layout", "token_set", "un_prefix",
     "silver", "funny", "lang", "memorabilia", "mdfc", "special"}

Matches(cond, r) ==
    CASE cond \in FlagCols -> Eq(r[cond], Bool(TRUE))
      [] cond = "basic" -> Contains(r["type_line"].v, "Basic")
      [] cond = "token_type" -> Contains(r["type_line"].v, "Token")
      [] cond = "token_layout" -> Eq(r["layout"], Str("token"))
      [] cond = "token_set" -> Eq(r["set_type"], Str("token"))
      [] cond = "un_prefix" -> Slice02(r["set_name"].v) = <<"U", "n">>
      [] cond = "silver" -> Eq(r["border_color"], Str("silver"))
      [] cond = "funny" -> Eq(r["set_type"], Str("funny"))
      [] cond = "lang" -> ~Eq(r["lang"], Str("en"))
      [] cond = "memorabilia" -> Eq(r["set_type"], Str("memorabilia"))
      [] cond = "mdfc" -> /\ Eq(r["layout"], Str("modal_dfc"))
                          /\ Eq(r["booster"], Bool(FALSE))
      [] cond = "special" -> Eq(r["rarity"], Str("special"))

\* the boolean Series df[<condition>]
Mask(d, cond) == [i \in DOMAIN d.rows |-> Matches(cond, d.rows[i])]

\* assert df[c].value_counts(normalize=True)[0] == 1: value_counts leaves
\* the missing values out and lists the shares of the others, the largest
\* first; [0] raises on an empty listing, and the first share is 1 exactly
\* when one distinct value is left.
ValueCountsAssert(d, c) ==
    IF NonNull(d, c) = <<>> THEN "LookupError"
    ELSE IF Cardinality(Distinct(NonNull(d, c))) # 1 THEN "AssertionError"
    ELSE ""

\* the shape shared by __drop_reprints, __drop_digital_cards,
\* __drop_reserved_list, __drop_oversized_cards, __drop_promo_cards,
\* __drop_variation_cards, __drop_full_art_cards and __drop_languages
DropAsserted(d, drop, c, cond) ==
    IF ~Has(d, c) THEN Raise("KeyError", d, drop)
    ELSE LET d2 == DropRows(d, Mask(d, cond))
             e == ValueCountsAssert(d2, c)
         IN  IF e # "" THEN Out(d2, drop, e, {cond}, {cond})
             ELSE Out(d2, Append(drop, c), "", {cond}, {cond})

\* the shape shared by __drop_memorabilia and __drop_special_rarity_cards:
\* a removal with no assert after it
DropUnasserted(d, drop, c, cond) ==
    IF ~Has(d, c) THEN Raise("KeyError", d, drop)
    ELSE Out(DropRows(d, Mask(d, cond)), drop, "", {cond}, {})

\* df[c].apply(lambda s: w in s): TypeError on a missing value
ApplyRaises(d, c) == \E i \in DOMAIN d.rows : d.rows[i][c].na

DropReprints(d, drop) == DropAsserted(d, drop, "reprint", "reprint")

DropBasicLands(d, drop) ==
    IF ~Has(d, "type_line") THEN Raise("KeyError", d, drop)
    ELSE IF ApplyRaises(d, "type_line") THEN Raise("TypeError", d, drop)
    ELSE LET d2 == DropRows(d, Mask(d, "basic"))
         IN  IF AnyTrue(Mask(d2, "basic"))
             THEN Out(d2, drop, "AssertionError", {"basic"}, {"basic"})
             ELSE Out(d2, drop, "", {"basic"}, {"basic"})

DropTokens(d, drop) ==
    IF ~Has(d, "type_line") THEN Raise("KeyError", d, drop)
    ELSE IF ApplyRaises(d, "type_line") THEN Raise("TypeError", d, drop)
    ELSE LET d2 == DropRows(d, Mask(d, "token_type"))
         IN  IF AnyTrue(Mask(d2, "token_type"))
             THEN Out(d2, drop, "AssertionError", {"token_type"}, {"token_type"})
             ELSE IF ~Has(d2, "layout")
             THEN Out(d2, drop, "KeyError", {"token_type"}, {"token_type"})
             ELSE LET d3 == DropRows(d2, Mask(d2, "token_layout"))
                  IN  IF ~Has(d3, "set_type")
                      THEN Out(d3, drop, "KeyError",
                               {"token_type", "token_layout"}, {"token_type"})
                      ELSE Out(DropRows(d3, Mask(d3, "token_set")),
                               drop, "",
                               {"token_type", "token_layout", "token_set"},
                               {"token_type"})

DropUnSets(d, drop) ==
    IF ~Has(d, "set_name") THEN Raise("KeyError", d, drop)
    ELSE IF ApplyRaises(d, "set_name") THEN Raise("TypeError", d, drop)
    ELSE LET d2 == DropRows(d, Mask(d, "un_prefix"))
         IN  IF AnyTrue(Mask(d2, "un_prefix"))
             THEN Out(d2, drop, "AssertionError", {"un_prefix"}, {"un_prefix"})
             ELSE IF ~Has(d2, "border_color")
             THEN Out(d2, drop, "KeyError", {"un_prefix"}, {"un_prefix"})
             ELSE LET d3 == DropRows(d2, Mask(d2, "silver"))
                  IN  IF ~Has(d3, "set_type")
                      THEN Out(d3, drop, "KeyError",
                               {"un_prefix", "silver"}, {"un_prefix"})
                      ELSE Out(DropRows(d3, Mask(d3, "funny")),
                               drop, "",
                               {"un_prefix", "silver", "funny"}, {"un_prefix"})

DropDigitalCards(d, drop) == DropAsserted(d, drop, "digital", "digital")
DropReservedList(d, drop) == DropAsserted(d, drop, "reserved", "reserved")
DropLanguages(d, drop) == DropAsserted(d, drop, "lang", "lang")
DropOversizedCards(d, drop) == DropAsserted(d, drop, "oversized", "oversized")
DropPromoCards(d, drop) == DropAsserted(d, drop, "promo", "promo")
DropVariationCards(d, drop) == DropAsserted(d, drop, "variation", "variation")
DropMemorabilia(d, drop) == DropUnasserted(d, drop, "set_type", "memorabilia")
DropFullArtCards(d, drop) == DropAsserted(d, drop, "full_art", "full_art")

DropDuplicatedMdfcCards(d, drop) ==
    IF ~Has(d, "layout") \/ ~Has(d, "booster") THEN Raise("KeyError", d, drop)
    ELSE Out(DropRows(d, Mask(d, "mdfc")), drop, "", {"mdfc"}, {})

DropSpecialRarityCards(d, drop) == DropUnasserted(d, drop, "rarity", "special")

leakage == <<"edhrec_rank", "penny_rank", "collector_number">>
DropLeakage(d, drop) == Ok(d, drop \o leakage)

unusable_cols ==
    <<"highres_image", "image_status", "games", "foil", "nonfoil", "finishes",
      "set", "artist", "border_color", "story_spotlight", "power", "toughness",
      "oracle_text", "colors",
      "n_restricted_mana", "mana_cost", "color_identity", "keywords",
      "legalities", "type_bool_list", "color_bool_list", "n_restricted_mana",
      "id", "name", "type_line">>
DropUnusableCols(d, drop) == Ok(d, drop \o unusable_cols)

\* columns whose count of missing values is >= half the number of rows
NullCols(d) == {c \in d.cols : 2 * NullCount(d, c) >= Len(d.rows)}
DropNullCols(d, drop) == Ok(DropCols(d, NullCols(d)), drop)

DropNoPriceCards(d, drop) ==
    IF ~Has(d, "price_usd") THEN Raise("KeyError", d, drop)
    ELSE Ok(DropRows(d, [i \in DOMAIN d.rows |-> d.rows[i]["price_usd"].na]), drop)

(***************************************************************************)
(* The derivation stage.                                                   *)
(***************************************************************************)
main_card_types == <<"Artifact", "Creature", "Enchantment", "Instant",
                     "Land", "Planeswalker", "Sorcery", "Tribal">>
colors == <<"W", "U", "B", "R", "G">>
\* card_type.lower()
lower == [Artifact |-> "artifact", Creature |-> "creature",
          Enchantment |-> "enchantment", Instant |-> "instant",
          Land |-> "land", Planeswalker |-> "planeswalker",
          Sorcery |-> "sorcery", Tribal |-> "tribal"]
color_dict == [W |-> "white", U |-> "blue", B |-> "black", R |-> "red",
               G |-> "green"]

\* list.index(x): the first position of x
IndexOf(s, x) == CHOOSE i \in DOMAIN s : s[i] = x /\ \A j \in 1..(i - 1) : s[j] # x
RECURSIVE SumSeq(_)
SumSeq(s) == IF s = <<>> THEN 0 ELSE Head(s) + SumSeq(Tail(s))

\* series.fillna(value, inplace=True) on a column of the table
FillNa(d, c, value) == SetCol(d, c,
        [n \in DOMAIN d.rows |->
            LET r == d.rows[n] IN IF r[c].na THEN value ELSE r[c]])

CreateIsLegendaryCol(d, drop) ==
    IF ~Has(d, "type_line") THEN Raise("KeyError", d, drop)
    ELSE LET d2 == FillNa(d, "type_line", Str(<<>>))
         IN  Ok(SetCol(d2, "is_legendary",
                       [n \in DOMAIN d2.rows |->
                           LET r == d2.rows[n] IN Bool(Contains(r["type_line"].v, "Legendary"))]),
                drop)

CreateTypeBoolList(d, drop) ==
    IF ~Has(d, "type_line") THEN Raise("KeyError", d, drop)
    ELSE IF ApplyRaises(d, "type_line") THEN Raise("TypeError", d, drop)
    ELSE Ok(SetCol(d, "type_bool_list",
                   [n \in DOMAIN d.rows |->
                       LET r == d.rows[n] IN List([i \in DOMAIN main_card_types |->
                       IF Contains(r["type_line"].v, main_card_types[i])
                       THEN 1 ELSE 0])]),
            drop)

CreateNTypesCol(d, drop) ==
    IF ~Has(d, "type_bool_list") THEN Raise("KeyError", d, drop)
    ELSE Ok(SetCol(d, "n_types",
            [n \in DOMAIN d.rows |->
                LET r == d.rows[n] IN Int(SumSeq(r["type_bool_list"].v))]),
            drop)

\* for key in keys: df[names[key]] = df[listcol].apply(
\*     lambda l: True if l[keys.index(key)] == 1 else False)
RECURSIVE BoolCols(_, _, _, _, _)
BoolCols(d, listcol, keys, names, k) ==
    IF k > Len(keys) THEN d
    ELSE BoolCols(SetCol(d, names[k],
                         [n \in DOMAIN d.rows |->
                             LET r == d.rows[n] IN Bool(r[listcol].v[IndexOf(keys, keys[k])] = 1)]),
                  listcol, keys, names, k + 1)

CreateBoolTypeCols(d, drop) ==
    IF ~Has(d, "type_bool_list") THEN Raise("KeyError", d, drop)
    ELSE Ok(BoolCols(d, "type_bool_list", main_card_types,
                     [i \in DOMAIN main_card_types |->
                         "is_" \o lower[main_card_types[i]]], 1),
            drop)

CreateColorBoolList(d, drop) ==
    IF ~Has(d, "color_identity") THEN Raise("KeyError", d, drop)
    ELSE IF ApplyRaises(d, "color_identity") THEN Raise("TypeError", d, drop)
    ELSE Ok(SetCol(d, "color_bool_list",
                   [n \in DOMAIN d.rows |->
                       LET r == d.rows[n] IN List([i \in DOMAIN colors |->
                       IF Contains(r["color_identity"].v, colors[i])
                       THEN 1 ELSE 0])]),
            drop)

CreateNColorsCol(d, drop) ==
    IF ~Has(d, "color_bool_list") THEN Raise("KeyError", d, drop)
    ELSE Ok(SetCol(d, "n_colors",
            [n \in DOMAIN d.rows |->
                LET r == d.rows[n] IN Int(SumSeq(r["color_bool_list"].v))]),
            drop)

\* every lambda reading the same position of the list
CreateBoolColorColsOneIndex(d, drop) ==
    IF ~Has(d, "color_bool_list") THEN Raise("KeyError", d, drop)
    ELSE LET d2 == BoolCols(d, "color_bool_list",
                            [i \in DOMAIN colors |-> colors[Len(colors)]],
                            [i \in DOMAIN colors |-> "is_" \o color_dict[colors[i]]],
                            1)
         IN  Ok(SetCol(d2, "is_colorless",
                       [n \in DOMAIN d2.rows |->
                           LET r == d2.rows[n] IN Bool(SumSeq(r["color_bool_list"].v) = 0)]),
                drop)

CreateBoolColorCols(d, drop) ==
    IF ~Has(d, "color_bool_list") THEN Raise("KeyError", d, drop)
    ELSE LET d2 == BoolCols(d, "color_bool_list", colors,
                            [i \in DOMAIN colors |-> "is_" \o color_dict[colors[i]]],
                            1)
         IN  Ok(SetCol(d2, "is_colorless",
                       [n \in DOMAIN d2.rows |->
                           LET r == d2.rows[n] IN Bool(SumSeq(r["color_bool_list"].v) = 0)]),
                drop)

\* the first position >= from of s whose character is in set, 0 for none
RECURSIVE FirstIn(_, _, _)
FirstIn(s, set, from) ==
    IF from > Len(s) THEN 0
    ELSE IF s[from] \in set THEN from
    ELSE FirstIn(s, set, from + 1)

\* len(re.findall("\{.*?[WUBRG].*?\}", s)) from position from on: each match
\* starts at the next "{", runs lazily to the first colour letter after it
\* and from there lazily to the first "}"; the search resumes after it.
RECURSIVE FindallCount(_, _)
FindallCount(s, from) ==
    LET i == FirstIn(s, {"{"}, from)
        j == IF i = 0 THEN 0 ELSE FirstIn(s, {"W", "U", "B", "R", "G"}, i + 1)
        k == IF j = 0 THEN 0 ELSE FirstIn(s, {"}"}, j + 1)
    IN  IF k = 0 THEN 0 ELSE 1 + FindallCount(s, k + 1)

CreateNRestrictedMana(d, drop) ==
    IF ~Has(d, "mana_cost") THEN Raise("KeyError", d, drop)
    ELSE LET d2 == FillNa(d, "mana_cost", Str(<<"{", "0", "}">>))
         IN  Ok(SetCol(d2, "n_restricted_mana",
                       [n \in DOMAIN d2.rows |->
                           LET r == d2.rows[n] IN Int(FindallCount(r["mana_cost"].v, 1))]),
                drop)

\* n_restricted_mana / cmc if cmc != 0 else 0, as the fraction <<num, den>>;
\* cmc is in half units, so n / cmc is 2n / (2 cmc).  NaN != 0, and n / NaN
\* is NaN.
RestrictedMana(n, cmc) ==
    IF cmc.na THEN NaN
    ELSE IF cmc.v # 0 THEN Num(<<2 * n.v, cmc.v>>)
    ELSE Num(<<0, 1>>)

CreateRestrictedManaCol(d, drop) ==
    IF ~Has(d, "n_restricted_mana") \/ ~Has(d, "cmc")
    THEN Raise("AttributeError", d, drop)
    ELSE Ok(SetCol(d, "restricted_mana",
                   [n \in DOMAIN d.rows |->
                       LET r == d.rows[n] IN RestrictedMana(r["n_restricted_mana"], r["cmc"])]),
            drop)

RECURSIVE SetLegalCols(_, _)
SetLegalCols(d, keys) ==
    IF keys = {} THEN d
    ELSE LET f == CHOOSE x \in keys : TRUE
         IN  SetLegalCols(SetCol(d, f \o "_legal",
                                 [n \in DOMAIN d.rows |->
                                     LET r == d.rows[n] IN Str(r["legalities"].v[f])]),
                          keys \ {f})

CreateFormatLegalCols(d, drop) ==
    IF ~Has(d, "legalities") THEN Raise("KeyError", d, drop)
    ELSE IF d.rows = <<>> THEN Raise("IndexError", d, drop)
    ELSE IF d.rows[1]["legalities"].na THEN Raise("TypeError", d, drop)
    ELSE LET legalities_keys == DOMAIN d.rows[1]["legalities"].v
         IN  IF legalities_keys = {} THEN Ok(d, drop)
             ELSE IF ApplyRaises(d, "legalities") THEN Raise("TypeError", d, drop)
             ELSE IF \E i \in DOMAIN d.rows :
                        ~(legalities_keys \subseteq DOMAIN d.rows[i]["legalities"].v)
             THEN Raise("KeyError", d, drop)
             ELSE Ok(SetLegalCols(d, legalities_keys), drop)

CreateHasFlavorTextCol(d, drop) ==
    IF ~Has(d, "flavor_text") THEN Raise("KeyError", d, drop)
    ELSE Ok(SetCol(d, "has_flavor_text",
            [n \in DOMAIN d.rows |->
                LET r == d.rows[n] IN Bool(~r["flavor_text"].na)]),
            Append(drop, "flavor_text"))

CreateNKeywordsCol(d, drop) ==
    IF ~Has(d, "keywords") THEN Raise("KeyError", d, drop)
    ELSE IF ApplyRaises(d, "keywords") THEN Raise("TypeError", d, drop)
    ELSE Ok(SetCol(d, "n_keywords",
            [n \in DOMAIN d.rows |->
                LET r == d.rows[n] IN Int(Len(r["keywords"].v))]), drop)

DigitVal == [c \in {"0", "1", "2", "3", "4", "5", "6", "7", "8", "9"} |->
                CASE c = "0" -> 0 [] c = "1" -> 1 [] c = "2" -> 2 [] c = "3" -> 3
                  [] c = "4" -> 4 [] c = "5" -> 5 [] c = "6" -> 6 [] c = "7" -> 7
                  [] c = "8" -> 8 [] c = "9" -> 9]
RECURSIVE Digits(_)
Digits(s) == IF s = <<>> THEN 0
             ELSE 10 * Digits(SubSeq(s, 1, Len(s) - 1)) + DigitVal[s[Len(s)]]
\* float("d.dd") in hundredths; None becomes NaN under astype(float)
ToFloat(x) ==
    IF x.na THEN NaN
    ELSE LET p == FirstIn(x.v, {"."}, 1)
         IN  Num(100 * Digits(SubSeq(x.v, 1, p - 1))
                 + Digits(SubSeq(x.v, p + 1, Len(x.v))))

CreatePriceUsdCol(d, drop) ==
    IF ~Has(d, "prices") THEN Raise("KeyError", d, drop)
    ELSE IF ApplyRaises(d, "prices") THEN Raise("TypeError", d, drop)
    ELSE IF \E i \in DOMAIN d.rows : "usd" \notin DOMAIN d.rows[i]["prices"].v
    THEN Raise("KeyError", d, drop)
    ELSE Ok(SetCol(d, "price_usd",
            [n \in DOMAIN d.rows |->
                LET r == d.rows[n] IN ToFloat(r["prices"].v["usd"])]),
            Append(drop, "prices"))

(***************************************************************************)
(* The closing statements of wrangle.                                      *)
(***************************************************************************)
\* df.columns: the columns of the file in its order, then the derived ones
\* in the order wrangle creates them
ColOrder ==
    <<"id", "oracle_id", "name", "lang", "released_at", "layout", "image_uris",
      "mana_cost", "cmc", "type_line", "color_identity", "keywords",
      "legalities", "games", "reserved", "oversized", "promo", "reprint",
      "variation", "set_name", "set_type", "rarity", "flavor_text",
      "border_color", "full_art", "booster", "digital", "edhrec_rank", "prices",
      "is_legendary", "type_bool_list", "n_types", "is_artifact", "is_creature",
      "is_enchantment", "is_instant", "is_land", "is_planeswalker",
      "is_sorcery", "is_tribal", "color_bool_list", "n_colors", "is_white",
      "is_blue", "is_black", "is_red", "is_green", "is_colorless",
      "n_restricted_mana", "restricted_mana", "modern_legal", "standard_legal",
      "has_flavor_text", "n_keywords", "price_usd">>
RawCols == {ColOrder[i] : i \in 1..29}
Columns(d) == SelectSeq(ColOrder, LAMBDA c : c \in d.cols)
\* "uri" in column
HasUri(c) == c \in {"image_uris"}
\* "_id" in column[-4:]
EndsInId(c) == c \in {"oracle_id"}

\* for column in df.columns: type(df[column].dropna().iloc[0]) in (list, dict)
RECURSIVE ListDictScan(_, _, _)
ListDictScan(d, drop, columns) ==
    IF columns = <<>> THEN Ok(d, drop)
    ELSE IF NonNull(d, Head(columns)) = <<>> THEN Raise("IndexError", d, drop)
    ELSE ListDictScan(d,
             IF NonNull(d, Head(columns))[1].t \in {"list", "dict"}
             THEN Append(drop, Head(columns)) ELSE drop,
             Tail(columns))
DropListDictCols(d, drop) == ListDictScan(d, drop, Columns(d))

DropUriCols(d, drop) == Ok(d, drop \o SelectSeq(Columns(d), HasUri))
DropIdCols(d, drop) == Ok(d, drop \o SelectSeq(Columns(d), EndsInId))

\* the list __clean_drop_cols appends to cleaned_drop_cols
CleanDropCols(d, drop) == SelectSeq(drop, LAMBDA c : c \in d.cols)

\* the order of sort_values(ascending=True): missing values last
DateLe(a, b) == b.na \/ (~a.na /\ a.v <= b.v)
IsSortedByReleaseDate(rows) ==
    \A i, j \in DOMAIN rows : i < j => DateLe(rows[i]["released_at"],
                                              rows[j]["released_at"])
\* sort_values with ascending=False
SortValuesDescending(d) ==
    {t \in {[d EXCEPT !.rows = [i \in DOMAIN d.rows |-> d.rows[p[i]]]] :
                p \in Permutations(DOMAIN d.rows)} :
        \A i, j \in DOMAIN t.rows :
            i < j => DateLe(t.rows[j]["released_at"], t.rows[i]["released_at"])}

\* df.sort_values(by="released_at", ascending=True, inplace=True): the
\* default quicksort is not stable, so rows with equal dates may end in
\* either order
SortValuesByReleaseDate(d) ==
    {t \in {[d EXCEPT !.rows = [i \in DOMAIN d.rows |-> d.rows[p[i]]]] :
                p \in Permutations(DOMAIN d.rows)} :
        IsSortedByReleaseDate(t.rows)}

SeqToSet(s) == {s[i] : i \in DOMAIN s}

(***************************************************************************)
(* The cached file.  Every table has all the raw columns; its rows are     *)
(* drawn from a set of cards that differ from BaseCard in a few fields.    *)
(***************************************************************************)
BaseCard ==
    [c \in RawCols |->
        CASE c = "id" -> Str("id-1")
          [] c = "oracle_id" -> Str("oracle-1")
          [] c = "name" -> Str("Serra Angel")
          [] c = "lang" -> Str("en")
          [] c = "released_at" -> Num(2)
          [] c = "layout" -> Str("normal")
          [] c = "image_uris" -> Dict([png |-> "https://img"])
          [] c = "mana_cost" -> Str(<<"{", "1", "}", "{", "W", "}">>)
          [] c = "cmc" -> Num(4)
          [] c = "type_line" -> Str(<<"Legendary", "Creature">>)
          [] c = "color_identity" -> List(<<"W">>)
          [] c = "keywords" -> List(<<"Flying">>)
          [] c = "legalities" -> Dict([standard |-> "legal", modern |-> "legal"])
          [] c = "games" -> List(<<"paper">>)
          [] c = "set_name" -> Str(<<"D", "o", "m">>)
          [] c = "set_type" -> Str("expansion")
          [] c = "rarity" -> Str("rare")
          [] c = "flavor_text" -> Str("text")
          [] c = "border_color" -> Str("black")
          [] c = "booster" -> Bool(TRUE)
          [] c = "edhrec_rank" -> Num(100)
          [] c = "prices" -> Dict([usd |-> Str(<<"1", ".", "5", "0">>)])
          [] OTHER -> Bool(FALSE)]

With(card, changes) ==
    [c \in RawCols |-> IF c \in DOMAIN changes THEN changes[c] ELSE card[c]]

Cards ==
    {BaseCard,
     With(BaseCard, [released_at |-> Num(1), rarity |-> Str("common"),
                     flavor_text |-> NaN, edhrec_rank |-> NaN,
                     prices |-> Dict([usd |-> NaN])]),
     With(BaseCard, [released_at |-> NaN, mana_cost |-> NaN, cmc |-> Num(0),
                     type_line |-> Str(<<"Land">>), color_identity |-> List(<<>>)]),
     With(BaseCard, [reprint |-> Bool(TRUE)]),
     With(BaseCard, [reprint |-> NaN]),
     With(BaseCard, [digital |-> NaN, reserved |-> NaN]),
     With(BaseCard, [lang |-> Str("ja"), promo |-> Bool(TRUE)]),
     With(BaseCard, [lang |-> NaN]),
     With(BaseCard, [type_line |-> Str(<<"Basic", "Land">>)]),
     With(BaseCard, [type_line |-> Str(<<"Token", "Creature">>),
                     layout |-> Str("token"), set_type |-> Str("token")]),
     With(BaseCard, [set_name |-> Str(<<"U", "n", "h">>),
                     border_color |-> Str("silver"), set_type |-> Str("funny")]),
     With(BaseCard, [set_type |-> Str("memorabilia"), oversized |-> Bool(TRUE)]),
     With(BaseCard, [layout |-> Str("modal_dfc"), booster |-> Bool(FALSE)]),
     With(BaseCard, [rarity |-> Str("special"), full_art |-> Bool(TRUE)])}

RECURSIVE SeqsUpTo(_, _)
SeqsUpTo(S, n) ==
    IF n = 0 THEN {<<>>}
    ELSE LET shorter == SeqsUpTo(S, n - 1)
         IN  shorter \cup {Append(s, x) : s \in shorter, x \in S}

Tables == {[cols |-> RawCols, rows |-> rows] : rows \in SeqsUpTo(Cards, MaxRows) \ {<<>>}}

(***************************************************************************)
(* wrangle, statement by statement.                                        *)
(***************************************************************************)
Order ==
    <<"__drop_reprints", "__drop_basic_lands", "__drop_tokens", "__drop_un_sets",
      "__drop_digital_cards", "__drop_reserved_list", "__drop_languages",
      "__drop_oversized_cards", "__drop_promo_cards", "__drop_variation_cards",
      "__drop_memorabilia", "__drop_full_art_cards",
      "__drop_duplicated_mdfc_cards", "__drop_special_rarity_cards",
      "__drop_leakage", "__drop_unusable_cols", "__drop_null_cols",
      "__drop_no_price_cards",
      "__create_is_legendary_col", "__create_type_bool_list",
      "__create_n_types_col", "__create_bool_type_cols",
      "__create_color_bool_list", "__create_n_colors_col",
      "__create_bool_color_cols", "__create_n_restricted_mana",
      "__create_restricted_mana_col", "__create_format_legal_cols",
      "__create_has_flavor_text_col", "__create_n_keywords_col",
      "__create_price_usd_col",
      "__drop_list_dict_cols", "__drop_uri_cols", "__drop_id_cols",
      "__clean_drop_cols", "__sort_values_by_release_date", "return">>

\* the statement after p: the two "if" of wrangle skip a stage
AfterClean == IF create_new_cols THEN "__create_is_legendary_col"
              ELSE "__drop_list_dict_cols"
After(p) == IF p = "__drop_no_price_cards" THEN AfterClean
            ELSE Order[IndexOf(Order, p) + 1]

\* what the caller gets: nothing yet, the exception e raised by statement p,
\* or the returned table
NoResult == [kind |-> "none", err |-> "", at |-> "", table |-> NoDf]
Raised(e, p) == [kind |-> "raised", err |-> e, at |-> p, table |-> NoDf]
Returned(t) == [kind |-> "table", err |-> "", at |-> "", table |-> t]

\* statement p runs and gives out; an exception ends the call
Step(p, out) ==
    /\ pc = p
    /\ cols_to_drop' = out.drop
    \* the statement appends the same columns whatever the list held before
    /\ fresh' = fresh \o SubSeq(out.drop, Len(cols_to_drop) + 1, Len(out.drop))
    /\ removed' = removed \cup out.removed
    /\ requeried' = requeried \cup out.requeried
    /\ IF out.err = ""
       THEN df' = out.df /\ pc' = After(p) /\ result' = result
       ELSE df' = NoDf /\ pc' = "done" /\ result' = Raised(out.err, p)
    /\ UNCHANGED <<file, clean, create_new_cols, cleaned_drop_cols, wrangles,
                   fvars>>

\* the call: pd.read_json(file) and the first "if"
wrangle ==
    /\ pc = "wrangle"
    /\ df' = file
    /\ pc' = IF clean THEN "__drop_reprints" ELSE AfterClean
    /\ cleaned_drop_cols' = <<>>
    /\ result' = NoResult
    /\ removed' = {}
    /\ requeried' = {}
    /\ wrangles' = wrangles + 1
    /\ fresh' = <<>>
    /\ UNCHANGED <<file, clean, create_new_cols, cols_to_drop, fvars>>

__drop_reprints == Step("__drop_reprints", DropReprints(df, cols_to_drop))
__drop_basic_lands == Step("__drop_basic_lands", DropBasicLands(df, cols_to_drop))
__drop_tokens == Step("__drop_tokens", DropTokens(df, cols_to_drop))
__drop_un_sets == Step("__drop_un_sets", DropUnSets(df, cols_to_drop))
__drop_digital_cards ==
    Step("__drop_digital_cards", DropDigitalCards(df, cols_to_drop))
__drop_reserved_list ==
    Step("__drop_reserved_list", DropReservedList(df, cols_to_drop))
__drop_languages == Step("__drop_languages", DropLanguages(df, cols_to_drop))
__drop_oversized_cards ==
    Step("__drop_oversized_cards", DropOversizedCards(df, cols_to_drop))
__drop_promo_cards == Step("__drop_promo_cards", DropPromoCards(df, cols_to_drop))
__drop_variation_cards ==
    Step("__drop_variation_cards", DropVariationCards(df, cols_to_drop))
__drop_memorabilia == Step("__drop_memorabilia", DropMemorabilia(df, cols_to_drop))
__drop_full_art_cards ==
    Step("__drop_full_art_cards", DropFullArtCards(df, cols_to_drop))
__drop_duplicated_mdfc_cards ==
    Step("__drop_duplicated_mdfc_cards", DropDuplicatedMdfcCards(df, cols_to_drop))
__drop_special_rarity_cards ==
    Step("__drop_special_rarity_cards", DropSpecialRarityCards(df, cols_to_drop))
__drop_leakage == Step("__drop_leakage", DropLeakage(df, cols_to_drop))
__drop_unusable_cols ==
    Step("__drop_unusable_cols", DropUnusableCols(df, cols_to_drop))
__drop_null_cols == Step("__drop_null_cols", DropNullCols(df, cols_to_drop))
__drop_no_price_cards ==
    Step("__drop_no_price_cards", DropNoPriceCards(df, cols_to_drop))

__create_is_legendary_col ==
    Step("__create_is_legendary_col", CreateIsLegendaryCol(df, cols_to_drop))
__create_type_bool_list ==
    Step("__create_type_bool_list", CreateTypeBoolList(df, cols_to_drop))
__create_n_types_col ==
    Step("__create_n_types_col", CreateNTypesCol(df, cols_to_drop))
__create_bool_type_cols ==
    Step("__create_bool_type_cols", CreateBoolTypeCols(df, cols_to_drop))
__create_color_bool_list ==
    Step("__create_color_bool_list", CreateColorBoolList(df, cols_to_drop))
__create_n_colors_col ==
    Step("__create_n_colors_col", CreateNColorsCol(df, cols_to_drop))
__create_bool_color_cols ==
    Step("__create_bool_color_cols", CreateBoolColorCols(df, cols_to_drop))
__create_n_restricted_mana ==
    Step("__create_n_restricted_mana", CreateNRestrictedMana(df, cols_to_drop))
__create_restricted_mana_col ==
    Step("__create_restricted_mana_col", CreateRestrictedManaCol(df, cols_to_drop))
__create_format_legal_cols ==
    Step("__create_format_legal_cols", CreateFormatLegalCols(df, cols_to_drop))
__create_has_flavor_text_col ==
    Step("__create_has_flavor_text_col", CreateHasFlavorTextCol(df, cols_to_drop))
__create_n_keywords_col ==
    Step("__create_n_keywords_col", CreateNKeywordsCol(df, cols_to_drop))
__create_price_usd_col ==
    Step("__create_price_usd_col", CreatePriceUsdCol(df, cols_to_drop))

__drop_list_dict_cols ==
    Step("__drop_list_dict_cols", DropListDictCols(df, cols_to_drop))
__drop_uri_cols == Step("__drop_uri_cols", DropUriCols(df, cols_to_drop))
__drop_id_cols == Step("__drop_id_cols", DropIdCols(df, cols_to_drop))

__clean_drop_cols ==
    /\ pc = "__clean_drop_cols"
    /\ cleaned_drop_cols' = cleaned_drop_cols \o CleanDropCols(df, cols_to_drop)
    /\ pc' = After("__clean_drop_cols")
    /\ UNCHANGED <<file, clean, create_new_cols, df, cols_to_drop, result,
                   removed, requeried, wrangles, fresh, fvars>>

__sort_values_by_release_date ==
    /\ pc = "__sort_values_by_release_date"
    /\ IF Has(df, "released_at")
       THEN /\ df' \in SortValuesByReleaseDate(df)
            /\ pc' = After("__sort_values_by_release_date")
            /\ result' = result
       ELSE /\ df' = NoDf
            /\ pc' = "done"
            /\ result' = Raised("KeyError", "__sort_values_by_release_date")
    /\ UNCHANGED <<file, clean, create_new_cols, cols_to_drop, cleaned_drop_cols,
                   removed, requeried, wrangles, fresh, fvars>>

\* return df.drop(columns=cleaned_drop_cols)
return ==
    /\ pc = "return"
    /\ result' = Returned(DropCols(df, SeqToSet(cleaned_drop_cols)))
    /\ df' = NoDf
    /\ pc' = "done"
    /\ UNCHANGED <<file, clean, create_new_cols, cols_to_drop, cleaned_drop_cols,
                   removed, requeried, wrangles, fresh, fvars>>

\* the caller calls wrangle once more on the same wrangler object, with the
\* arguments of its choice; self.__cols_to_drop is what the calls before left
wrangle_again ==
    /\ pc = "done"
    /\ wrangles < MaxWrangles
    /\ clean' \in BOOLEAN
    /\ create_new_cols' \in BOOLEAN
    /\ pc' = "wrangle"
    /\ UNCHANGED <<file, df, cols_to_drop, cleaned_drop_cols, result, removed,
                   requeried, wrangles, fresh, fvars>>

FilteringStage ==
    \/ __drop_reprints
    \/ __drop_basic_lands
    \/ __drop_tokens
    \/ __drop_un_sets
    \/ __drop_digital_cards
    \/ __drop_reserved_list
    \/ __drop_languages
    \/ __drop_oversized_cards
    \/ __drop_promo_cards
    \/ __drop_variation_cards
    \/ __drop_memorabilia
    \/ __drop_full_art_cards
    \/ __drop_duplicated_mdfc_cards
    \/ __drop_special_rarity_cards
    \/ __drop_leakage
    \/ __drop_unusable_cols
    \/ __drop_null_cols
    \/ __drop_no_price_cards

DerivationStage ==
    \/ __create_is_legendary_col
    \/ __create_type_bool_list
    \/ __create_n_types_col
    \/ __create_bool_type_cols
    \/ __create_color_bool_list
    \/ __create_n_colors_col
    \/ __create_bool_color_cols
    \/ __create_n_restricted_mana
    \/ __create_restricted_mana_col
    \/ __create_format_legal_cols
    \/ __create_has_flavor_text_col
    \/ __create_n_keywords_col
    \/ __create_price_usd_col

ClosingStage ==
    \/ __drop_list_dict_cols
    \/ __drop_uri_cols
    \/ __drop_id_cols
    \/ __clean_drop_cols
    \/ __sort_values_by_release_date
    \/ return

(***************************************************************************)
(* The fetcher.  A download URI is its sequence of path segments; file     *)
(* names are strings, and StartsWithAllCards is file.startswith for the    *)
(* names of the model.                                                     *)
(***************************************************************************)
CurrentUri == <<"https:", "data.scryfall.io", "all-cards", "all-cards-2.json">>
OtherUri == <<"https:", "data.scryfall.io", "all-cards", "all-cards-3.json">>
FileNames == {"all-cards-1.json", "all-cards-2.json", "all-cards-3.json",
              "notes.txt"}
StartsWithAllCards(f) == f \in {"all-cards-1.json", "all-cards-2.json",
                                "all-cards-3.json"}
\* os.path.basename
basename(uri) == uri[Len(uri)]

\* the listing endpoint: unreachable, or a status code and a JSON body that
\* has a download_uri field (a sequence) or lacks it (<<>>)
Listings ==
    {[reachable |-> FALSE, status_code |-> 0, download_uri |-> <<>>],
     [reachable |-> TRUE, status_code |-> 404, download_uri |-> <<>>],
     [reachable |-> TRUE, status_code |-> 200, download_uri |-> <<>>],
     [reachable |-> TRUE, status_code |-> 200, download_uri |-> CurrentUri],
     [reachable |-> TRUE, status_code |-> 200, download_uri |-> OtherUri]}

Unbuilt == [state |-> "unbuilt", err |-> ""]
Ready == [state |-> "ready", err |-> ""]
CtorRaised(e) == [state |-> "raised", err |-> e]

\* ScryfallAPI.__init__: the exception it raises, "" for none
InitError(l) ==
    IF ~l.reachable THEN "ConnectionError"
    ELSE IF l.status_code # 200 THEN "AssertionError"
    ELSE IF l.download_uri = <<>> THEN "KeyError"
    ELSE ""

__init__ ==
    /\ api = Unbuilt
    /\ IF InitError(listing) = ""
       THEN api' = Ready /\ dataset_file' = basename(listing.download_uri)
       ELSE api' = CtorRaised(InitError(listing)) /\ dataset_file' = dataset_file
    /\ UNCHANGED <<listing, disk, response_status, calls, downloads, fault, wvars>>

NoStatus == [kind |-> "none", success |-> FALSE, message |-> ""]
StatusDict(ok, msg) == [kind |-> "dict", success |-> ok, message |-> msg]
Propagated(e) == [kind |-> "raised", success |-> FALSE, message |-> e]

\* the errors the file system and the network can raise in get_dataset
Faults == {"none", "os.remove", "requests.get", "open", "write"}

\* a try block that does not test exists(self.dataset_file)
TryBlockAlwaysDownloads(d, name, f, gone) ==
    [disk |-> {x \in d : ~StartsWithAllCards(x)} \cup {name}, requests |-> 1,
     err |-> "", status |-> StatusDict(TRUE, "Successfully downloaded")]

\* the body of the try block of get_dataset on the files d, with the
\* environment raising at f after os.remove has removed the files gone:
\* the files left, the requests for the bulk file, the exception ("" for
\* none) and the status built
TryBlock(d, name, f, gone) ==
    IF name \notin d
    THEN IF f = "os.remove"
         THEN [disk |-> d \ gone, requests |-> 0, err |-> "PermissionError",
               status |-> NoStatus]
         ELSE LET purged == {x \in d : ~StartsWithAllCards(x)}
              IN  CASE f = "requests.get" ->
                         [disk |-> purged, requests |-> 1,
                          err |-> "ConnectionError", status |-> NoStatus]
                    [] f = "open" ->
                         [disk |-> purged, requests |-> 1,
                          err |-> "PermissionError", status |-> NoStatus]
                    [] f = "write" ->
                         [disk |-> purged \cup {name}, requests |-> 1,
                          err |-> "OSError", status |-> NoStatus]
                    [] OTHER ->
                         [disk |-> purged \cup {name}, requests |-> 1,
                          err |-> "",
                          status |-> StatusDict(TRUE, "Successfully downloaded")]
    ELSE [disk |-> d, requests |-> 0, err |-> "",
          status |-> StatusDict(TRUE, "Existing file is the most updated version")]

\* a try block with no except clause
NoExceptClause(body) ==
    IF body.err # "" THEN Propagated(body.err) ELSE body.status

\* except Exception as e: the status get_dataset returns
ExceptClause(body) ==
    IF body.err # "" THEN StatusDict(FALSE, body.err) ELSE body.status

\* the faults that can happen on the files d: none when the file is there,
\* os.remove only when a file is to be purged
CanFail(d, name, f, gone) ==
    /\ name \in d => f = "none"
    /\ IF f = "os.remove"
       THEN /\ gone \subseteq {x \in d : StartsWithAllCards(x)}
            /\ gone # {x \in d : StartsWithAllCards(x)}
       ELSE gone = {}

get_dataset ==
    /\ api = Ready
    /\ calls < MaxCalls
    /\ \E f \in Faults, gone \in SUBSET disk :
          /\ CanFail(disk, dataset_file, f, gone)
          /\ LET body == TryBlock(disk, dataset_file, f, gone)
             IN  /\ disk' = body.disk
                 /\ downloads' = downloads + body.requests
                 /\ response_status' = ExceptClause(body)
                 /\ fault' = f
    /\ calls' = calls + 1
    /\ UNCHANGED <<listing, api, dataset_file, wvars>>

\* the environment: a file of the directory is deleted between two calls
FileDeleted ==
    /\ api = Ready
    /\ \E x \in disk : disk' = disk \ {x}
    /\ UNCHANGED <<listing, api, dataset_file, response_status, calls,
                   downloads, fault, wvars>>

(***************************************************************************)
(* Specifications.  Spec is one wrangle call on a cached file of Tables,   *)
(* after a fetch that succeeded; FetchSpec is the fetcher from its         *)
(* construction on.                                                        *)
(***************************************************************************)
WranglerIdle ==
    /\ pc = "wrangle"
    /\ df = NoDf
    /\ cols_to_drop = <<>>
    /\ cleaned_drop_cols = <<>>
    /\ result = NoResult
    /\ removed = {}
    /\ requeried = {}
    /\ wrangles = 0
    /\ fresh = <<>>

Fetched ==
    /\ listing = [reachable |-> TRUE, status_code |-> 200,
                  download_uri |-> CurrentUri]
    /\ disk = {basename(CurrentUri)}
    /\ api = Ready
    /\ dataset_file = basename(CurrentUri)
    /\ response_status = StatusDict(TRUE, "Successfully downloaded")
    /\ calls = 1
    /\ downloads = 1
    /\ fault = "none"

\* the records of DeriveSpec: BaseCard with every colour identity over the
\* five colours, and with every mana cost of up to MaxSymbols symbols (or
\* none) beside every cmc up to MaxCmc half units (or none)
ColorIdentities == {SelectSeq(colors, LAMBDA c : c \in S) : S \in SUBSET SeqToSet(colors)}
ManaSymbols == {<<"{", "W", "}">>, <<"{", "1", "}">>, <<"{", "H", "W", "}">>,
                <<"{", "W", "/", "U", "}">>}
RECURSIVE Flatten(_)
Flatten(ss) == IF ss = <<>> THEN <<>> ELSE Head(ss) \o Flatten(Tail(ss))
ManaCosts == {NaN} \cup {Str(Flatten(ss)) : ss \in SeqsUpTo(ManaSymbols, MaxSymbols)}
Cmcs == {NaN} \cup {Num(k) : k \in 0..MaxCmc}
DeriveCards ==
    {With(BaseCard, [color_identity |-> List(ci)]) : ci \in ColorIdentities}
    \cup {With(BaseCard, [mana_cost |-> m, cmc |-> k]) : m \in ManaCosts, k \in Cmcs}

Init ==
    /\ file \in Tables
    /\ clean \in BOOLEAN
    /\ create_new_cols \in BOOLEAN
    /\ WranglerIdle
    /\ Fetched

Next == wrangle \/ FilteringStage \/ DerivationStage \/ ClosingStage

Spec == Init /\ [][Next]_vars

FetchInit ==
    /\ listing \in Listings
    /\ disk \in SUBSET FileNames
    /\ api = Unbuilt
    /\ dataset_file = ""
    /\ response_status = NoStatus
    /\ calls = 0
    /\ downloads = 0
    /\ fault = "none"
    /\ file = NoDf
    /\ clean = TRUE
    /\ create_new_cols = TRUE
    /\ WranglerIdle

FetchNext == __init__ \/ get_dataset \/ FileDeleted

FetchSpec == FetchInit /\ [][FetchNext]_vars

\* DeriveSpec: wrangle(clean=False, create_new_cols=True) on one record
DeriveInit ==
    /\ file \in {[cols |-> RawCols, rows |-> <<card>>] : card \in DeriveCards}
    /\ clean = FALSE
    /\ create_new_cols = TRUE
    /\ WranglerIdle
    /\ Fetched

DeriveNext == wrangle \/ DerivationStage \/ ClosingStage

DeriveSpec == DeriveInit /\ [][DeriveNext]_vars

\* one wrangler object used for up to MaxWrangles calls on the same file
RewrangleNext ==
    wrangle \/ wrangle_again \/ FilteringStage \/ DerivationStage \/ ClosingStage

RewrangleSpec == Init /\ [][RewrangleNext]_vars

(***************************************************************************)
(* Properties.                                                             *)
(***************************************************************************)
StatementsBetween(first, last) == {Order[i] : i \in first..last}
Table == result.table

\* C1: wrangle(clean=True, create_new_cols=True) gets through step 20, the
\* no-price removal, without failing, and no record of the table it returns
\* has a missing price_usd.
C1_NoPriceRemovalRunsAndPricesArePresent ==
    (clean /\ create_new_cols) =>
        /\ ~(result.kind = "raised" /\ result.at = "__drop_no_price_cards")
        /\ result.kind = "table" =>
              /\ Has(Table, "price_usd")
              /\ \A i \in DOMAIN Table.rows : ~Table.rows[i]["price_usd"].na

\* C2: every record that has survived the reprint, digital, reserved and
\* language removals has reprint, digital and reserved exactly False and
\* lang exactly "en"; no record with a True or missing flag survives.
C2_SurvivorsHaveFalseFlagsAndEnglish ==
    (clean /\ pc \in StatementsBetween(8, 17)) =>
        \A i \in DOMAIN df.rows :
            /\ df.rows[i]["reprint"] = Bool(FALSE)
            /\ df.rows[i]["digital"] = Bool(FALSE)
            /\ df.rows[i]["reserved"] = Bool(FALSE)
            /\ df.rows[i]["lang"] = Str("en")

C4_ExistingFileIsReportedAndLeftAlone ==
    [][/\ (calls' = calls + 1 /\ dataset_file \in disk) =>
             /\ response_status' =
                   StatusDict(TRUE, "Existing file is the most updated version")
             /\ disk' = disk
             /\ downloads' = downloads
       /\ (calls' = calls + 1 /\ response_status'.success) =>
             dataset_file \in disk']_vars

\* a download that succeeded, then a second call that found the file
C4_Witness ==
    /\ calls = 2
    /\ downloads = 1
    /\ dataset_file \in disk
    /\ response_status =
          StatusDict(TRUE, "Existing file is the most updated version")

\* C5: wrangle(clean=True), once past the row removals, returns a table in
\* which every column has fewer than half its values missing.
C5_ReturnedColumnsAreUnderHalfMissing ==
    (clean /\ pc = "done" /\ result.at \notin StatementsBetween(1, 14)) =>
        /\ result.kind = "table"
        /\ \A c \in Table.cols : 2 * NullCount(Table, c) < Len(Table.rows)

\* C6: restricted_mana is between 0 and 1 for a record with cmc > 0 and is
\* 0 for a record with cmc = 0, whatever mana_cost and cmc the record has.
C6_RestrictedManaIsAShare ==
    Has(df, "restricted_mana") =>
        \A i \in DOMAIN df.rows :
            LET cmc == df.rows[i]["cmc"]
                share == df.rows[i]["restricted_mana"]
            IN  ~cmc.na =>
                    /\ ~share.na
                    /\ cmc.v > 0 => share.v[1] <= share.v[2]
                    /\ cmc.v = 0 => share.v[1] = 0

\* C7: every removal of the filtering stage that has been executed has
\* been followed by a re-query of its condition.
C7_EveryRemovalIsRequeried == removed \subseteq requeried

\* C8: a returned table of two or more records has no column with a single
\* distinct value and no column of lists or mappings.
C8_NoSingleValuedOrNestedColumn ==
    (result.kind = "table" /\ Len(Table.rows) >= 2) =>
        \A c \in Table.cols :
            /\ Cardinality(Distinct(Column(Table, c))) > 1
            /\ \A i \in DOMAIN Table.rows : Table.rows[i][c].t \notin {"list", "dict"}

\* C9: once the colour columns exist, n_colors is the number of True values
\* among is_white, is_blue, is_black, is_red and is_green, and is_colorless
\* is True exactly when n_colors is 0.
ColorCols == {"is_white", "is_blue", "is_black", "is_red", "is_green"}
C9_NColorsCountsTheColorColumns ==
    Has(df, "is_colorless") =>
        \A i \in DOMAIN df.rows :
            /\ df.rows[i]["n_colors"].v =
                  Cardinality({c \in ColorCols : df.rows[i][c] = Bool(TRUE)})
            /\ df.rows[i]["is_colorless"].v <=> df.rows[i]["n_colors"].v = 0

\* a two-coloured record and its columns
C9_Witness ==
    /\ Has(df, "is_colorless")
    /\ \E i \in DOMAIN df.rows :
          /\ df.rows[i]["color_identity"] = List(<<"U", "R">>)
          /\ df.rows[i]["n_colors"] = Int(2)
          /\ df.rows[i]["is_blue"] = Bool(TRUE)
          /\ df.rows[i]["is_white"] = Bool(FALSE)

\* C10: the records of a returned table are in ascending order of
\* released_at, the records without a date last.
C10_ReturnedTableIsInReleaseOrder ==
    result.kind = "table" =>
        /\ Has(Table, "released_at")
        /\ \A i \in 1..(Len(Table.rows) - 1) :
              LET a == Table.rows[i]["released_at"]
                  b == Table.rows[i + 1]["released_at"]
              IN  /\ a.na => b.na
                  /\ (~a.na /\ ~b.na) => a.v <= b.v

\* a file whose two records are in descending order of date, returned
C10_Witness ==
    /\ result.kind = "table"
    /\ Len(file.rows) = 2
    /\ Len(Table.rows) = 2
    /\ ~file.rows[1]["released_at"].na
    /\ ~file.rows[2]["released_at"].na
    /\ file.rows[1]["released_at"].v > file.rows[2]["released_at"].v

\* C11: a wrangle call on a wrangler object that has been used before removes
\* the same columns as the same call on a fresh wrangler: the table about to
\* be returned has the columns that df.drop gives with the drop list of this
\* call alone, whatever the earlier calls (failed ones included) left in
\* self.__cols_to_drop.
C11_EarlierCallsNeverAffectTheColumnsRemoved ==
    pc = "return" =>
        DropCols(df, SeqToSet(cleaned_drop_cols)).cols
            = DropCols(df, SeqToSet(CleanDropCols(df, fresh))).cols

====
